---------------------------- MODULE Spec2Model ----------------------------
(***************************************************************************)
(* State-machine model of the wireguard-mesh convergence engine:           *)
(* src/mesh/mesh.py (Mesh), src/mesh/node.py (MeshNode),                   *)
(* src/mesh/remote.py (WireguardRemote) and src/mesh/gretap.py.            *)
(*                                                                         *)
(* Remote hosts hold, per node, a config file and a WireGuard interface.   *)
(* The control process holds, per node, the desired in-memory config.      *)
(* Random values (private key, tunnel ULA, pre-shared key) are modelled as *)
(* fresh names: the key and ULA a node synthesizes in process run e are    *)
(* <<n, e>>, the pre-shared key a pair gets in run e is <<a, b, e>>.       *)
(* Probing commands (test -f, cat, wg show) report the remote state and    *)
(* rm -f removes the file; config write, wg-quick up and wg-quick down may *)
(* fail on the host.  The config file holds the config as                  *)
(* WireguardConfig.from_wgconfig reads it back.                            *)
(***************************************************************************)
EXTENDS Integers, Sequences, FiniteSets, TLC

VARIABLES
    epoch,      \* number of the current control-process run (Mesh object)
    decl,       \* the `nodes` list of the mesh declaration, as loaded
    nodes,      \* Mesh.nodes: the node records of the mesh, in list order
    size,       \* len(Mesh.nodes)
    full,       \* Mesh.full
    mem,        \* mem[n]: MeshNode._config, the desired config of node n
    file,       \* file[n]: content of /etc/wireguard/<if>.conf, or NoConfig
    ifup,       \* ifup[n]: `wg show <if>` succeeds
    running,    \* running[n]: the config the live interface was loaded from
    pc,         \* position of the control process: "idle", inside a verb
                \* ("up", "rollback", "down", "sync"), or "done" (returning)
    arg,        \* tri-state argument of the verb being executed
    i,          \* index of the next node the verb's loop visits
    up_nodes,   \* Mesh.up's up_nodes list
    ret,        \* value returned by the last completed verb
    calls,      \* node-level calls made by the current/last verb, in order
    swept,      \* whether the current/last verb ran the pair sweep
    faults,     \* number of remote commands that have failed by a host fault
    verb,       \* the verb being executed or just ended ("none" when idle)
    udp         \* answers of the UDP probes to the pair sweep just run

vars == <<epoch, decl, nodes, size, full, mem, file, ifup, running, pc, arg, i, up_nodes,
          ret, calls, swept, faults, verb, udp>>

(***************************************************************************)
(* Bounds and program constants                                            *)
(***************************************************************************)
NumNodes == 3
MaxEpoch == 2
MaxFaults == 2

DEFAULT_PORT == 51820

Nodes == 1..NumNodes
Tri == {"true", "false", "null"}

\* Mesh.pairs: combinations(self.nodes, 2), in list order
RECURSIVE PairsFrom(_, _)
PairsFrom(a, b) ==
    IF a >= NumNodes THEN <<>>
    ELSE IF b > NumNodes THEN PairsFrom(a + 1, a + 2)
    ELSE <<(<<a, b>>)>> \o PairsFrom(a, b + 1)

pairs == PairsFrom(1, 2)

\* Mesh.pairs of a mesh declared over the first sz nodes
MeshPairs(sz) == SelectSeq(pairs, LAMBDA p : p[2] <= sz)

\* A node record of the declaration: its name (0 is the empty string) and
\* its host, the position of its address in the mesh network.  A node is
\* identified by its host n throughout: its remote, its interface name and its
\* GRETAP device names all derive from NodeType.index.
Names == 0..NumNodes
Records == [name : Names, host : Nodes]

\* the declaration that lists the first sz hosts in address order, each named
\* after its host
InOrder(sz) == [k \in 1..sz |-> [name |-> k, host |-> k]]

\* the nodes of the mesh (Mesh.nodes)
Members == {nodes[k].host : k \in 1..Len(nodes)}

\* NodeType.index: host_index(addr); node n is declared with the n-th host
\* address of the mesh network
index(n) == n

\* MeshNode.bridge_priority with prio = None
bridge_priority(n) == 32768 + 4096 * (-8 + ((index(n) - 1) % 16))

(***************************************************************************)
(* Values                                                                  *)
(***************************************************************************)
NoKey == <<0, 0>>
NoConfig ==
    [key |-> NoKey, addr |-> <<"ula", 0, 0>>, port |-> 0,
     peers |-> <<>>, postup |-> <<>>, predown |-> <<>>]

\* the overlay (bridge) address of node n, and a tunnel address
BridgeAddr(n) == <<"overlay", n, 0>>
TunnelAddr(n, e) == <<"ula", n, e>>

\* MeshNode.__config_init, else branch: a fresh key, a fresh random ULA
FreshConfig(n, e) ==
    [key |-> <<n, e>>, addr |-> TunnelAddr(n, e), port |-> DEFAULT_PORT,
     peers |-> <<>>, postup |-> <<>>, predown |-> <<>>]

\* __config_init synthesizing a fresh config whatever the remote holds
config_init_always_fresh(n, e, remote_file) == FreshConfig(n, e)

\* MeshNode.__config_init: adopt the remote config when there is one
config_init(n, e, remote_file) ==
    IF remote_file # NoConfig THEN remote_file ELSE FreshConfig(n, e)

\* gretap_up: the four shell lines for one GRETAP device and its bridge
gretap_up(gretap, prio, local, remote, bridge_addr) ==
    << <<"link_add", gretap,
         IF local[1] = "ula" /\ remote[1] = "ula" THEN "ip6gretap" ELSE "gretap",
         local, remote>>,
       <<"link_up", gretap>>,
       <<"bridge_ensure", prio, bridge_addr>>,
       <<"master", gretap>> >>

\* gretap_down testing for enslaved devices before it releases its own
gretap_down_check_first(gretap) ==
    << <<"bridge_del_if_unused">>, <<"nomaster", gretap>>, <<"link_del", gretap>> >>

\* gretap_down: the three shell lines of the tear-down
gretap_down(gretap) ==
    << <<"nomaster", gretap>>, <<"link_del", gretap>>, <<"bridge_del_if_unused">> >>

\* MeshNode.as_peer
as_peer(n, cfg, psk) ==
    [pub |-> cfg.key, psk |-> psk, allowed |-> <<cfg.addr>>, name |-> n]

PeerKeys(cfg) == {cfg.peers[k].pub : k \in 1..Len(cfg.peers)}

PeerOf(cfg, pub) ==
    cfg.peers[CHOOSE k \in 1..Len(cfg.peers) : cfg.peers[k].pub = pub]

\* WireguardConfig.add_peer: peers[peer.public_key] = peer (a dict keeps the
\* position of a key it already holds)
add_peer(cfg, peer) ==
    IF peer.pub \in PeerKeys(cfg)
    THEN [cfg EXCEPT !.peers =
            [k \in 1..Len(cfg.peers) |->
                IF cfg.peers[k].pub = peer.pub THEN peer ELSE cfg.peers[k]]]
    ELSE [cfg EXCEPT !.peers = Append(cfg.peers, peer)]

\* attrs equality of two WireguardConfig objects: peers is a dict (compared
\* without order), postup and predown are lists
ConfigEq(c1, c2) ==
    /\ c1.key = c2.key
    /\ c1.addr = c2.addr
    /\ c1.port = c2.port
    /\ {c1.peers[k] : k \in 1..Len(c1.peers)} = {c2.peers[k] : k \in 1..Len(c2.peers)}
    /\ c1.postup = c2.postup
    /\ c1.predown = c2.predown

\* peer_with refreshing without the comparison of the tunnel addresses
peer_with_unchecked_addresses(m, a, b, e, isfull, can_peer) ==
    LET A == m[a]
        B == m[b]
    IN  IF A.key = B.key
        THEN [m |-> m, raised |-> TRUE]
        ELSE IF A.key \in PeerKeys(B) /\ B.key \in PeerKeys(A)
        THEN [m |-> [m EXCEPT
                ![a] = add_peer(A, [PeerOf(A, B.key) EXCEPT !.name = b]),
                ![b] = add_peer(B, [PeerOf(B, A.key) EXCEPT !.name = a])],
              raised |-> FALSE]
        ELSE IF ~isfull /\ ~can_peer
        THEN [m |-> m, raised |-> FALSE]
        ELSE LET psk == <<a, b, e>>
                 A1 == add_peer(A, as_peer(b, B, psk))
                 B1 == add_peer(B, as_peer(a, A, psk))
                 A2 == [A1 EXCEPT
                          !.postup = @ \o gretap_up(index(b), bridge_priority(a),
                                                   A.addr, B.addr, BridgeAddr(a)),
                          !.predown = @ \o gretap_down(index(b))]
                 B2 == [B1 EXCEPT
                          !.postup = @ \o gretap_up(index(a), bridge_priority(b),
                                                   B.addr, A.addr, BridgeAddr(b)),
                          !.predown = @ \o gretap_down(index(a))]
             IN  [m |-> [m EXCEPT ![a] = A2, ![b] = B2], raised |-> FALSE]

\* peer_with without the refresh branch: a pair that is already peered is
\* peered again
peer_with_without_refresh(m, a, b, e, isfull, can_peer) ==
    LET A == m[a]
        B == m[b]
    IN  IF A.key = B.key
        THEN [m |-> m, raised |-> TRUE]
        ELSE IF ~isfull /\ ~can_peer
        THEN [m |-> m, raised |-> FALSE]
        ELSE LET psk == <<a, b, e>>
                 A1 == add_peer(A, as_peer(b, B, psk))
                 B1 == add_peer(B, as_peer(a, A, psk))
                 A2 == [A1 EXCEPT
                          !.postup = @ \o gretap_up(index(b), bridge_priority(a),
                                                   A.addr, B.addr, BridgeAddr(a)),
                          !.predown = @ \o gretap_down(index(b))]
                 B2 == [B1 EXCEPT
                          !.postup = @ \o gretap_up(index(a), bridge_priority(b),
                                                   B.addr, A.addr, BridgeAddr(b)),
                          !.predown = @ \o gretap_down(index(a))]
             IN  [m |-> [m EXCEPT ![a] = A2, ![b] = B2], raised |-> FALSE]

(***************************************************************************)
(* MeshNode.peer_with(a, b): m is the map of in-memory configs, e the run, *)
(* can_peer the outcome of the UDP probe.  The result is the new map and   *)
(* whether the call raised.                                                *)
(***************************************************************************)
peer_with(m, a, b, e, isfull, can_peer) ==
    LET A == m[a]
        B == m[b]
    IN  IF A.key = B.key
        THEN [m |-> m, raised |-> TRUE]
        ELSE IF A.key \in PeerKeys(B) /\ B.key \in PeerKeys(A)
        THEN \* refresh: only the allowed_ips are validated
             IF PeerOf(B, A.key).allowed[1] # A.addr
                \/ PeerOf(A, B.key).allowed[1] # B.addr
             THEN [m |-> m, raised |-> TRUE]
             ELSE [m |-> [m EXCEPT
                     ![a] = add_peer(A, [PeerOf(A, B.key) EXCEPT !.name = b]),
                     ![b] = add_peer(B, [PeerOf(B, A.key) EXCEPT !.name = a])],
                   raised |-> FALSE]
        ELSE IF ~isfull /\ ~can_peer
        THEN [m |-> m, raised |-> FALSE]
        ELSE LET psk == <<a, b, e>>
                 A1 == add_peer(A, as_peer(b, B, psk))
                 B1 == add_peer(B, as_peer(a, A, psk))
                 A2 == [A1 EXCEPT
                          !.postup = @ \o gretap_up(index(b), bridge_priority(a),
                                                   A.addr, B.addr, BridgeAddr(a)),
                          !.predown = @ \o gretap_down(index(b))]
                 B2 == [B1 EXCEPT
                          !.postup = @ \o gretap_up(index(a), bridge_priority(b),
                                                   B.addr, A.addr, BridgeAddr(b)),
                          !.predown = @ \o gretap_down(index(a))]
             IN  [m |-> [m EXCEPT ![a] = A2, ![b] = B2], raised |-> FALSE]

\* can_peer asking for an answered probe in both directions
can_peer_both_directions(a, b, up, probes) ==
    /\ (~up[a] /\ <<a, b>> \in probes.recv1)
    /\ (~up[b] /\ <<a, b>> \in probes.recv2)

\* MeshNode.can_peer: a probe counts only on an end whose interface is down;
\* probes.recv1 / probes.recv2 are the pairs whose first / second node receives
\* the UDP byte
can_peer(a, b, up, probes) ==
    \/ (~up[a] /\ <<a, b>> \in probes.recv1)
    \/ (~up[b] /\ <<a, b>> \in probes.recv2)

\* Mesh.pairs of a mesh whose node list is ns: the pairs of hosts, in the
\* order combinations(self.nodes, 2) yields them
NodePairs(ns) ==
    LET ps == MeshPairs(Len(ns))
    IN  [k \in 1..Len(ps) |-> <<ns[ps[k][1]].host, ns[ps[k][2]].host>>]

\* a sweep that returns after one peer_with call
Sweep_one_pair(m, k, e, isfull, up, probes) ==
    LET ps == NodePairs(nodes)
    IN  IF k > Len(ps) THEN [m |-> m, raised |-> FALSE]
        ELSE peer_with(m, ps[k][1], ps[k][2], e, isfull,
                       can_peer(ps[k][1], ps[k][2], up, probes))

\* Mesh.up, lines 104-105: the pair sweep, which stops at the first
\* peer_with that raises
RECURSIVE Sweep(_, _, _, _, _, _)
Sweep(m, k, e, isfull, up, probes) ==
    LET ps == NodePairs(nodes)
    IN  IF k > Len(ps) THEN [m |-> m, raised |-> FALSE]
        ELSE LET r == peer_with(m, ps[k][1], ps[k][2], e, isfull,
                                can_peer(ps[k][1], ps[k][2], up, probes))
             IN  IF r.raised THEN r ELSE Sweep(r.m, k + 1, e, isfull, up, probes)

(***************************************************************************)
(* WireguardRemote: r = [file, ifup, running] is one host's state, f the   *)
(* outcome the host gives to each mutating command of one node-level call. *)
(***************************************************************************)
DownOutcomes == {"ok", "fail_up", "fail_down"}
Faults == [write : BOOLEAN, down : DownOutcomes, up : BOOLEAN]

\* WireguardRemote.config_write (warn=False: a non-zero exit raises)
remote_config_write(r, cfg, f) ==
    IF f.write THEN [r |-> [r EXCEPT !.file = cfg], ok |-> TRUE, hit |-> 0]
    ELSE [r |-> r, ok |-> FALSE, hit |-> 1]

\* WireguardRemote.up: wg-quick up fails when the interface exists or the
\* config file is missing, and removes what it created when it fails
remote_up(r, f) ==
    IF r.ifup \/ r.file = NoConfig THEN [r |-> r, ok |-> FALSE, hit |-> 0]
    ELSE IF f.up
    THEN [r |-> [r EXCEPT !.ifup = TRUE, !.running = r.file], ok |-> TRUE, hit |-> 0]
    ELSE [r |-> r, ok |-> FALSE, hit |-> 1]

\* WireguardRemote.down: wg-quick down fails when the interface or the
\* config file is missing; a failing run may or may not have deleted the
\* interface
remote_down(r, f) ==
    IF ~r.ifup \/ r.file = NoConfig THEN [r |-> r, ok |-> FALSE, hit |-> 0]
    ELSE IF f.down = "ok"
    THEN [r |-> [r EXCEPT !.ifup = FALSE, !.running = NoConfig], ok |-> TRUE, hit |-> 0]
    ELSE IF f.down = "fail_down"
    THEN [r |-> [r EXCEPT !.ifup = FALSE, !.running = NoConfig], ok |-> FALSE, hit |-> 1]
    ELSE [r |-> r, ok |-> FALSE, hit |-> 1]

\* config_remove without the is_up check
remote_config_remove_unchecked(r) ==
    [r |-> [r EXCEPT !.file = NoConfig], raised |-> FALSE]

\* WireguardRemote.config_remove: refuses (raises) while the interface is
\* up, else rm -f
remote_config_remove(r) ==
    IF r.ifup THEN [r |-> r, raised |-> TRUE]
    ELSE [r |-> [r EXCEPT !.file = NoConfig], raised |-> FALSE]

(***************************************************************************)
(* Node-level calls.  Each returns the host's new state r, the returned    *)
(* value ret ("true", "false" or "raised"), the effective write flag w of  *)
(* node.up, cmds, the mutating remote commands issued, in order, and nf,   *)
(* the number of them the host made fail.                                  *)
(***************************************************************************)
FaultCount(f) ==
    (IF f.write THEN 0 ELSE 1) + (IF f.down = "ok" THEN 0 ELSE 1)
    + (IF f.up THEN 0 ELSE 1)

Issued(cmds) == {cmds[k] : k \in 1..Len(cmds)}

Out(r, rv, w, cmds, nf) ==
    [r |-> r, ret |-> rv, w |-> w, cmds |-> cmds, nf |-> nf]

\* MeshNode.up, line 222: the effective value of write
\*   write or write is None and (write := not remote.config_exists)
\*         or (write := remote.config != self._config)
effective_write(r, cfg, write) ==
    IF write = "true" THEN TRUE
    ELSE IF write = "null" /\ r.file = NoConfig THEN TRUE
    ELSE r.file = NoConfig \/ ~ConfigEq(r.file, cfg)

\* MeshNode.up, lines 235-244: wg-quick up and the compensation
node_up_tail(r, w, f, cmds, nf) ==
    LET u == remote_up(r, f)
    IN  IF u.ok THEN Out(u.r, "true", w, cmds \o <<"up">>, nf)
        ELSE IF ~w THEN Out(u.r, "false", w, cmds \o <<"up">>, nf + u.hit)
        ELSE LET rm == remote_config_remove(u.r)
             IN  IF rm.raised
                 THEN Out(rm.r, "raised", w, cmds \o <<"up">>, nf + u.hit)
                 ELSE Out(rm.r, "false", w, cmds \o <<"up", "rm">>, nf + u.hit)

\* node.up going on to wg-quick up without wg-quick down when the interface
\* is up and the config was written
node_up_without_down(r, cfg, write, f) ==
    LET w == effective_write(r, cfg, write)
        cw == remote_config_write(r, cfg, f)
        r1 == IF w THEN cw.r ELSE r
        c1 == IF w THEN <<"write">> ELSE <<>>
    IN  IF w /\ ~cw.ok THEN Out(r, "false", w, c1, 1)
        ELSE IF r1.ifup /\ ~w THEN Out(r1, "true", w, c1, 0)
        ELSE node_up_tail(r1, w, f, c1, 0)

\* MeshNode.up
node_up(r, cfg, write, f) ==
    LET w == effective_write(r, cfg, write)
        cw == remote_config_write(r, cfg, f)
        r1 == IF w THEN cw.r ELSE r
        c1 == IF w THEN <<"write">> ELSE <<>>
        d == remote_down(r1, f)
    IN  IF w /\ ~cw.ok THEN Out(r, "false", w, c1, 1)
        ELSE IF r1.ifup
        THEN IF ~w THEN Out(r1, "true", w, c1, 0)
             ELSE node_up_tail(d.r, w, f, c1 \o <<"down">>, d.hit)
        ELSE node_up_tail(r1, w, f, c1, 0)

\* node.down removing the config after a failed wg-quick down also when
\* remove is None
node_down_failed_removes_on_null(r, remove, f) ==
    LET d == remote_down(r, f)
        r1 == IF r.ifup THEN d.r ELSE r
        c1 == IF r.ifup THEN <<"down">> ELSE <<>>
        rm == remote_config_remove(r1)
    IN  IF r.ifup /\ ~d.ok
        THEN IF ~r1.ifup /\ remove # "false"
             THEN Out(rm.r, "false", FALSE, c1 \o <<"rm">>, d.hit)
             ELSE Out(r1, "false", FALSE, c1, d.hit)
        ELSE IF remove = "true" \/ (remove = "null" /\ r1.file # NoConfig)
        THEN Out(rm.r, "true", FALSE, c1 \o <<"rm">>, 0)
        ELSE Out(r1, "true", FALSE, c1, 0)

\* MeshNode.down
node_down(r, remove, f) ==
    LET d == remote_down(r, f)
        r1 == IF r.ifup THEN d.r ELSE r
        c1 == IF r.ifup THEN <<"down">> ELSE <<>>
        rm == remote_config_remove(r1)
    IN  IF r.ifup /\ ~d.ok
        THEN IF ~r1.ifup /\ remove = "true"
             THEN Out(rm.r, "false", FALSE, c1 \o <<"rm">>, d.hit)
             ELSE Out(r1, "false", FALSE, c1, d.hit)
        ELSE IF remove = "true" \/ (remove = "null" /\ r1.file # NoConfig)
        THEN Out(rm.r, "true", FALSE, c1 \o <<"rm">>, 0)
        ELSE Out(r1, "true", FALSE, c1, 0)

\* node_sync with the comparison of line 269 always finding a difference
node_sync_always_differs(r, cfg, up, f) ==
    IF up = "true" \/ (up = "null" /\ r.ifup)
    THEN node_up(r, cfg, "true", f)
    ELSE LET cw == remote_config_write(r, cfg, f)
         IN  IF cw.ok THEN Out(cw.r, "true", TRUE, <<"write">>, 0)
             ELSE Out(r, "raised", TRUE, <<"write">>, 1)

\* MeshNode.sync
node_sync(r, cfg, up, f) ==
    IF r.file = NoConfig \/ ~ConfigEq(r.file, cfg)
    THEN IF up = "true" \/ (up = "null" /\ r.ifup)
         THEN node_up(r, cfg, "true", f)
         ELSE LET cw == remote_config_write(r, cfg, f)
              IN  IF cw.ok THEN Out(cw.r, "true", TRUE, <<"write">>, 0)
                  ELSE Out(r, "raised", TRUE, <<"write">>, 1)
    ELSE Out(r, "false", FALSE, <<>>, 0)

(***************************************************************************)
(* The control process                                                     *)
(***************************************************************************)
PairSet == {pairs[k] : k \in 1..Len(pairs)}
Probes == [recv1 : SUBSET PairSet, recv2 : SUBSET PairSet]
AllReach == [recv1 |-> PairSet, recv2 |-> PairSet]

Host(n) == [file |-> file[n], ifup |-> ifup[n], running |-> running[n]]

SetHost(n, r) ==
    /\ file' = [file EXCEPT ![n] = r.file]
    /\ ifup' = [ifup EXCEPT ![n] = r.ifup]
    /\ running' = [running EXCEPT ![n] = r.running]

\* the host makes fail only commands the call issues, within the budget of
\* host faults
Inject(f, o) ==
    /\ FaultCount(f) = o.nf
    /\ faults + o.nf <= MaxFaults
    /\ faults' = faults + o.nf

Call(op, n, o) ==
    [op |-> op, node |-> n, ret |-> o.ret, w |-> o.w, cmds |-> o.cmds,
     nf |-> o.nf]

\* Clean hosts, and a Mesh constructed over them: every node synthesizes a
\* fresh config (Mesh.__attrs_post_init__, MeshNode.__mesh_post_init__)
Init ==
    /\ epoch = 1
    /\ decl = InOrder(NumNodes)
    /\ nodes = InOrder(NumNodes)
    /\ size = NumNodes
    /\ full = TRUE
    /\ mem = [n \in Nodes |-> FreshConfig(n, 1)]
    /\ file = [n \in Nodes |-> NoConfig]
    /\ ifup = [n \in Nodes |-> FALSE]
    /\ running = [n \in Nodes |-> NoConfig]
    /\ pc = "idle"
    /\ arg = "null"
    /\ i = 1
    /\ up_nodes = <<>>
    /\ ret = "none"
    /\ calls = <<>>
    /\ swept = FALSE
    /\ faults = 0
    /\ verb = "none"
    /\ udp = AllReach

\* A new control process builds the Mesh again (the previous one has exited,
\* or is killed between two node-level calls of its verb): every node reads
\* its remote config and adopts it, or synthesizes a fresh one
Attach ==
    /\ epoch < MaxEpoch
    /\ epoch' = epoch + 1
    /\ mem' = [n \in Nodes |->
                 IF n \in Members THEN config_init(n, epoch + 1, file[n])
                 ELSE NoConfig]
    /\ pc' = "idle"
    /\ arg' = "null"
    /\ i' = 1
    /\ up_nodes' = <<>>
    /\ ret' = "none"
    /\ calls' = <<>>
    /\ swept' = FALSE
    /\ verb' = "none"
    /\ udp' = AllReach
    /\ UNCHANGED <<decl, nodes, size, full, file, ifup, running, faults>>

\* mesh.up returning None for an empty mesh replaced by True
mesh_up_result_always_true(ups) == "true"

\* Mesh.up, line 115: return None if not up_nodes else True
mesh_up_result(ups) == IF ups = <<>> THEN "null" ELSE "true"

\* the answers the UDP probes of one sweep can get
SweepProbes ==
    {p \in Probes : \A q \in p.recv1 \cup p.recv2 : q[2] <= size}

\* Mesh.up, lines 100-105: the pair sweep when some node has no peers; an
\* empty mesh has no node to bring up and returns None (line 115)
MeshUpStart ==
    /\ pc = "idle"
    /\ LET need == \E n \in Members : Len(mem[n].peers) = 0
       IN  \E write \in Tri,
              p \in (IF full \/ ~need THEN {AllReach} ELSE SweepProbes) :
             LET s == IF need THEN Sweep(mem, 1, epoch, full, ifup, p)
                      ELSE [m |-> mem, raised |-> FALSE]
             IN  /\ arg' = write
                 /\ mem' = s.m
                 /\ swept' = need
                 /\ udp' = p
                 /\ pc' = IF s.raised \/ size = 0 THEN "done" ELSE "up"
                 /\ ret' = IF s.raised THEN "raised"
                          ELSE IF size = 0 THEN mesh_up_result(<<>>) ELSE "none"
    /\ i' = 1
    /\ up_nodes' = <<>>
    /\ calls' = <<>>
    /\ verb' = "up"
    /\ UNCHANGED <<epoch, decl, nodes, size, full, file, ifup, running, faults>>

\* the node loop of Mesh.up going on to the next node after a node.up that
\* returned false
MeshUpNode_past_failure ==
    /\ pc = "up"
    /\ \E f \in Faults :
         LET n == nodes[i].host
             o == node_up(Host(n), mem[n], arg, f)
         IN  /\ Inject(f, o)
             /\ SetHost(n, o.r)
             /\ calls' = Append(calls, Call("up", n, o))
             /\ up_nodes' = IF o.ret = "true" THEN Append(up_nodes, n) ELSE up_nodes
             /\ pc' = IF o.ret # "raised" /\ i < size THEN "up" ELSE "done"
             /\ i' = IF o.ret # "raised" /\ i < size THEN i + 1 ELSE i
             /\ ret' = IF o.ret # "raised" /\ i < size THEN "none"
                      ELSE IF o.ret = "true" THEN mesh_up_result(Append(up_nodes, n))
                      ELSE o.ret
    /\ udp' = AllReach
    /\ UNCHANGED <<epoch, decl, nodes, size, full, mem, arg, swept, verb>>

\* Mesh.up, lines 107-115: node.up on the next node
MeshUpNode ==
    /\ pc = "up"
    /\ \E f \in Faults :
         LET n == nodes[i].host
             o == node_up(Host(n), mem[n], arg, f)
         IN  /\ Inject(f, o)
             /\ SetHost(n, o.r)
             /\ calls' = Append(calls, Call("up", n, o))
             /\ up_nodes' = IF o.ret = "true" THEN Append(up_nodes, n) ELSE up_nodes
             /\ pc' = IF o.ret = "true" /\ i < size THEN "up"
                      ELSE IF o.ret = "false" /\ up_nodes # <<>> THEN "rollback"
                      ELSE "done"
             /\ i' = IF o.ret = "true" /\ i < size THEN i + 1
                     ELSE IF o.ret = "false" /\ up_nodes # <<>> THEN 1
                     ELSE i
             /\ ret' = IF o.ret = "true" /\ i < size THEN "none"
                      ELSE IF o.ret = "false" /\ up_nodes # <<>> THEN "none"
                      ELSE IF o.ret = "true" THEN mesh_up_result(Append(up_nodes, n))
                      ELSE o.ret
    /\ udp' = AllReach
    /\ UNCHANGED <<epoch, decl, nodes, size, full, mem, arg, swept, verb>>

\* Mesh.up, lines 111-113: the compensation loop over up_nodes
MeshUpRollback ==
    /\ pc = "rollback"
    /\ \E f \in Faults :
         LET n == up_nodes[i]
             o == node_down(Host(n), arg, f)
         IN  /\ Inject(f, o)
             /\ SetHost(n, o.r)
             /\ calls' = Append(calls, Call("down", n, o))
             /\ pc' = IF i < Len(up_nodes) THEN "rollback" ELSE "done"
             /\ i' = IF i < Len(up_nodes) THEN i + 1 ELSE i
             /\ ret' = IF i < Len(up_nodes) THEN "none" ELSE "false"
    /\ UNCHANGED <<epoch, decl, nodes, size, full, mem, arg, up_nodes, swept, verb, udp>>

\* Mesh.down / Mesh.sync entered; all() of no node is True
VerbStart(name) ==
    /\ pc = "idle"
    /\ pc' = IF size = 0 THEN "done" ELSE name
    /\ arg' \in Tri
    /\ i' = 1
    /\ up_nodes' = <<>>
    /\ ret' = IF size = 0 THEN "true" ELSE "none"
    /\ calls' = <<>>
    /\ swept' = FALSE
    /\ verb' = name
    /\ UNCHANGED <<epoch, decl, nodes, size, full, mem, file, ifup, running, faults, udp>>

\* all(<generator>): the loop ends at the first call that does not return
\* true; n is the node the loop is at
VerbLoop(op, n, o, f) ==
    /\ Inject(f, o)
    /\ SetHost(n, o.r)
    /\ calls' = Append(calls, Call(op, n, o))
    /\ pc' = IF o.ret = "true" /\ i < size THEN pc ELSE "done"
    /\ i' = IF o.ret = "true" /\ i < size THEN i + 1 ELSE i
    /\ ret' = IF o.ret = "true" /\ i < size THEN "none" ELSE o.ret
    /\ UNCHANGED <<epoch, decl, nodes, size, full, mem, arg, up_nodes, swept, verb, udp>>

\* Mesh.down
MeshDownStart == VerbStart("down")

MeshDownNode ==
    /\ pc = "down"
    /\ \E f \in Faults :
         LET n == nodes[i].host
         IN  VerbLoop("down", n, node_down(Host(n), arg, f), f)

\* Mesh.sync
MeshSyncStart == VerbStart("sync")

MeshSyncNode ==
    /\ pc = "sync"
    /\ \E f \in Faults :
         LET n == nodes[i].host
         IN  VerbLoop("sync", n, node_sync(Host(n), mem[n], arg, f), f)

\* The verb hands its result to the caller; the process is ready for the
\* next verb
Return ==
    /\ pc = "done"
    /\ pc' = "idle"
    /\ arg' = "null"
    /\ i' = 1
    /\ up_nodes' = <<>>
    /\ ret' = "none"
    /\ calls' = <<>>
    /\ swept' = FALSE
    /\ verb' = "none"
    /\ udp' = AllReach
    /\ UNCHANGED <<epoch, decl, nodes, size, full, mem, file, ifup, running, faults>>

Next ==
    \/ Attach
    \/ Return
    \/ MeshUpStart
    \/ MeshUpNode
    \/ MeshUpRollback
    \/ MeshDownStart
    \/ MeshDownNode
    \/ MeshSyncStart
    \/ MeshSyncNode

Spec == Init /\ [][Next]_vars

(***************************************************************************)
(* Bring-up over remote hosts as found.  The mesh is declared over the     *)
(* first size nodes (possibly none), full or partial, and the hosts are    *)
(* clean, or hold the configs of an earlier complete deployment (run 0),   *)
(* possibly with one host's config file being a copy of another host's.    *)
(***************************************************************************)
\* the configs a complete full-mesh deployment of run 0 wrote (Mesh.up:
\* the pair sweep over fresh configs, then config_write on every node)
DeployedConfigs(sz) ==
    LET ps == MeshPairs(sz)
        F[k \in 0..Len(ps)] ==
            IF k = 0
            THEN [n \in Nodes |-> IF n <= sz THEN FreshConfig(n, 0) ELSE NoConfig]
            ELSE peer_with(F[k - 1], ps[k][1], ps[k][2], 0, TRUE, TRUE).m
    IN  F[Len(ps)]

\* the config files the hosts of a mesh of sz nodes may hold at the start
RemoteFiles(sz) ==
    LET D == DeployedConfigs(sz)
    IN  {[n \in Nodes |-> NoConfig], [n \in Nodes |-> D[n]]}
        \cup UNION {{[n \in Nodes |-> IF n = b THEN D[a] ELSE D[n]] :
                      b \in 1..sz \ {a}} : a \in 1..sz}
        \cup UNION {{[n \in Nodes |->
                        IF n \in {a, b} THEN FreshConfig(a, 0) ELSE NoConfig] :
                      b \in 1..sz \ {a}} : a \in 1..sz}

InitUp ==
    /\ epoch = 1
    /\ size \in 0..NumNodes
    /\ decl = InOrder(size)
    /\ nodes = InOrder(size)
    /\ full \in BOOLEAN
    /\ file \in RemoteFiles(size)
    /\ mem = [n \in Nodes |->
                IF n \in Members THEN config_init(n, 1, file[n]) ELSE NoConfig]
    /\ ifup = [n \in Nodes |-> FALSE]
    /\ running = [n \in Nodes |-> NoConfig]
    /\ pc = "idle"
    /\ arg = "null"
    /\ i = 1
    /\ up_nodes = <<>>
    /\ ret = "none"
    /\ calls = <<>>
    /\ swept = FALSE
    /\ faults = 0
    /\ verb = "none"
    /\ udp = AllReach

NextUp ==
    \/ Return
    \/ MeshUpStart
    \/ MeshUpNode
    \/ MeshUpRollback

SpecUp == InitUp /\ [][NextUp]_vars

(***************************************************************************)
(* Construction of the mesh from its declaration, then bring-up, over      *)
(* clean hosts.  The declaration lists at most NumNodes node records, on   *)
(* distinct hosts, in any order and under any names.                       *)
(***************************************************************************)
\* NodeType.__name_validator: an empty name is a ValueError
name_validator(rec) == rec.name # 0

\* NodeType.convert_all on a list: a dict comprehension keyed by node name; a
\* name met again keeps its place in the dict and takes the later record
RECURSIVE convert_all(_)
convert_all(value) ==
    IF value = <<>> THEN <<>>
    ELSE LET d == convert_all(SubSeq(value, 1, Len(value) - 1))
             r == value[Len(value)]
         IN  IF \E k \in 1..Len(d) : d[k].name = r.name
             THEN [k \in 1..Len(d) |-> IF d[k].name = r.name THEN r ELSE d[k]]
             ELSE Append(d, r)

\* MeshNode.__mesh_post_init__, line 81: mesh.nodes.get(self.name) is self
mesh_post_init(ns, k) ==
    \E j \in 1..Len(ns) : ns[j].name = ns[k].name /\ ns[j] = ns[k]

Declarations ==
    UNION {{d \in [1..len -> Records] :
              \A j, k \in 1..len : j # k => d[j].host # d[k].host} :
           len \in 0..NumNodes}

InitBuild ==
    /\ epoch = 1
    /\ decl \in Declarations
    /\ nodes = <<>>
    /\ size = 0
    /\ full = TRUE
    /\ mem = [n \in Nodes |-> NoConfig]
    /\ file = [n \in Nodes |-> NoConfig]
    /\ ifup = [n \in Nodes |-> FALSE]
    /\ running = [n \in Nodes |-> NoConfig]
    /\ pc = "new"
    /\ arg = "null"
    /\ i = 1
    /\ up_nodes = <<>>
    /\ ret = "none"
    /\ calls = <<>>
    /\ swept = FALSE
    /\ faults = 0
    /\ verb = "none"
    /\ udp = AllReach

\* The mesh is built from the declaration: every record is converted and
\* validated, the records are collected by name, and every node of the mesh
\* is attached to its remote.  A validation error ends the process before any
\* remote call.
Build ==
    /\ pc = "new"
    /\ LET ns == convert_all(decl)
           ok == /\ \A k \in 1..Len(decl) : name_validator(decl[k])
                 /\ \A k \in 1..Len(ns) : mesh_post_init(ns, k)
       IN  /\ pc' = IF ok THEN "idle" ELSE "invalid"
           /\ ret' = IF ok THEN "none" ELSE "raised"
           /\ nodes' = IF ok THEN ns ELSE <<>>
           /\ size' = IF ok THEN Len(ns) ELSE 0
           /\ mem' = [n \in Nodes |->
                        IF ok /\ (\E k \in 1..Len(ns) : ns[k].host = n)
                        THEN config_init(n, epoch, file[n]) ELSE NoConfig]
    /\ UNCHANGED <<epoch, decl, full, file, ifup, running, arg, i, up_nodes,
                   calls, swept, faults, verb, udp>>

NextBuild ==
    \/ Build
    \/ Return
    \/ MeshUpStart
    \/ MeshUpNode
    \/ MeshUpRollback

SpecBuild == InitBuild /\ [][NextBuild]_vars

(***************************************************************************)
(* Bring-up over hosts that were changed since a complete deployment (run  *)
(* 0): one host has lost its config file, and possibly the Address of      *)
(* another host's config file was edited by hand (its key left as it was). *)
(***************************************************************************)
\* a tunnel address no run generates
EditedAddr(n) == TunnelAddr(n, -1)

EditedFiles ==
    LET D == DeployedConfigs(NumNodes)
    IN  UNION {{[n \in Nodes |-> IF n = c THEN NoConfig ELSE D[n]]}
               \cup {[n \in Nodes |->
                        IF n = c THEN NoConfig
                        ELSE IF n = a THEN [key |-> D[n].key,
                                            addr |-> EditedAddr(n),
                                            port |-> D[n].port,
                                            peers |-> D[n].peers,
                                            postup |-> D[n].postup,
                                            predown |-> D[n].predown]
                        ELSE D[n]] : a \in Nodes \ {c}} : c \in Nodes}

InitEdited ==
    /\ epoch = 1
    /\ size = NumNodes
    /\ decl = InOrder(NumNodes)
    /\ nodes = InOrder(NumNodes)
    /\ full \in BOOLEAN
    /\ file \in EditedFiles
    /\ mem = [n \in Nodes |-> config_init(n, 1, file[n])]
    /\ ifup = [n \in Nodes |-> FALSE]
    /\ running = [n \in Nodes |-> NoConfig]
    /\ pc = "idle"
    /\ arg = "null"
    /\ i = 1
    /\ up_nodes = <<>>
    /\ ret = "none"
    /\ calls = <<>>
    /\ swept = FALSE
    /\ faults = 0
    /\ verb = "none"
    /\ udp = AllReach

SpecEdited == InitEdited /\ [][NextUp]_vars

(***************************************************************************)
(* Vocabulary of the properties                                            *)
(***************************************************************************)
\* the verb the recorded calls belong to ("none" before its first call)
LastVerb == IF calls = <<>> THEN "none" ELSE calls[1].op

\* the verb has ended: it returned a value, or left by an exception
Ended == pc = "done"

LastCall == calls[Len(calls)]

\* a node-level step has just been taken: calls' is calls with one more call
NodeStep == Len(calls') = Len(calls) + 1

NewCall == calls'[Len(calls')]

\* the call took the write branch / its config_write succeeded
Wrote(c) == c.w /\ ~(c.cmds = <<"write">> /\ c.ret # "true")

\* the remote config of every node equals its desired config
Converged ==
    \A n \in Nodes : file[n] # NoConfig /\ ConfigEq(file[n], mem[n])

\* the GRETAP devices a list of fragments adds / deletes, in order
Devices(lines, kind) ==
    LET F[k \in 0..Len(lines)] ==
          IF k = 0 THEN <<>>
          ELSE IF lines[k][1] = kind THEN Append(F[k - 1], lines[k][2])
          ELSE F[k - 1]
    IN  F[Len(lines)]

(***************************************************************************)
(* C1  Mesh bring-up rollback: when mesh.up has ended after the up of node *)
(* k failed, every node before k has its interface down, and node k has no *)
(* config file iff its up took the write branch.                           *)
(***************************************************************************)
C1_RollbackAfterFailedUp ==
    (Ended /\ LastVerb = "up" /\ ret \in {"false", "raised"}) =>
        \A j \in 1..Len(calls) :
            (calls[j].op = "up" /\ calls[j].ret # "true") =>
                /\ \A n \in 1..(calls[j].node - 1) : ~ifup[n]
                /\ (file[calls[j].node] = NoConfig) <=> calls[j].w

(***************************************************************************)
(* C2  Mesh tear-down is best-effort: when mesh.down has ended, down was   *)
(* called on every node, and it returned true iff every call did.          *)
(***************************************************************************)
C2_DownVisitsEveryNode ==
    (Ended /\ LastVerb = "down") =>
        /\ {calls[j].node : j \in 1..Len(calls)} = Nodes
        /\ (ret = "true") <=> (\A j \in 1..Len(calls) : calls[j].ret = "true")

(***************************************************************************)
(* C3  Mesh sync visits every node: when mesh.sync has ended, sync was     *)
(* called on every node, and it returned the AND of the node results.      *)
(***************************************************************************)
C3_SyncVisitsEveryNode ==
    (Ended /\ LastVerb = "sync") =>
        /\ {calls[j].node : j \in 1..Len(calls)} = Nodes
        /\ (ret = "true") <=> (\A j \in 1..Len(calls) : calls[j].ret = "true")

(***************************************************************************)
(* C4  Tri-state write of node.up as called by mesh.up: write=true always  *)
(* invokes config_write, write=false never does, write=null does iff the   *)
(* remote config is missing or differs from the desired one.               *)
(***************************************************************************)
C4_TriStateWrite ==
    [][(pc = "up" /\ NodeStep) =>
          LET written == "write" \in Issued(NewCall.cmds)
          IN  /\ arg = "true" => written
              /\ arg = "false" => ~written
              /\ arg = "null" =>
                   (written <=> (file[i] = NoConfig \/ ~ConfigEq(file[i], mem[i])))
      ]_vars

(***************************************************************************)
(* C5  Node bring-up compensation: a node.up in which wg-quick up failed   *)
(* returns false (it does not raise), and if it had written the config,    *)
(* the config file is absent when it returns.                              *)
(***************************************************************************)
C5_UpFailureCompensated ==
    [][(pc \in {"up", "sync"} /\ NodeStep /\ "up" \in Issued(NewCall.cmds)
        /\ NewCall.ret # "true") =>
          /\ NewCall.ret = "false"
          /\ Wrote(NewCall) => file'[i] = NoConfig
      ]_vars

(***************************************************************************)
(* C6  Repair after an aborted run: a mesh.up(write=null) in which no      *)
(* remote command fails ends with every interface up, every on-disk config *)
(* equal to the desired one, and every interface running the desired one.  *)
(***************************************************************************)
NoFaultInVerb == \A j \in 1..Len(calls) : calls[j].nf = 0

C6_UpRepairs ==
    (Ended /\ LastVerb = "up" /\ arg = "null" /\ NoFaultInVerb) =>
        \A n \in Nodes :
            /\ ifup[n]
            /\ ConfigEq(file[n], mem[n])
            /\ ConfigEq(running[n], mem[n])

(***************************************************************************)
(* C7  Sync idempotence: a mesh.sync started on a mesh whose remote        *)
(* configs equal the desired ones issues no config_write (no mutating      *)
(* command at all), leaves files and interfaces as they are and returns    *)
(* false; and a mesh.sync that returned true leaves the mesh in such a     *)
(* state, so the next one makes no writes.                                 *)
(***************************************************************************)
C7_SyncIdempotent ==
    /\ [][(pc = "sync" /\ NodeStep /\ calls = <<>> /\ Converged) =>
             /\ NewCall.cmds = <<>>
             /\ file' = file /\ ifup' = ifup /\ running' = running
             /\ pc' = "done" /\ ret' = "false"
         ]_vars
    /\ []((Ended /\ LastVerb = "sync" /\ ret = "true") => Converged)

C7_Witness ==
    /\ Ended /\ LastVerb = "sync" /\ ret = "false"
    /\ Len(calls) = 1 /\ calls[1].cmds = <<>>
    /\ Converged
    /\ \A n \in Nodes : Len(file[n].peers) = NumNodes - 1
    /\ \E n \in Nodes : ifup[n]

(***************************************************************************)
(* C8  node.sync returns true iff it changed remote state: a sync that     *)
(* wrote the config returned true, and one that returned true or false     *)
(* without having issued a mutating command returned false.                *)
(***************************************************************************)
C8_SyncReturnsChange ==
    \A j \in 1..Len(calls) :
        calls[j].op = "sync" =>
            /\ Wrote(calls[j]) => calls[j].ret = "true"
            /\ calls[j].ret = "false" => calls[j].cmds = <<>>
            /\ calls[j].ret = "true" => calls[j].cmds # <<>>

(***************************************************************************)
(* C9  Peer symmetry: whenever a's config has a peer with b's public key,  *)
(* b's config has a peer with a's public key, both records carry the same  *)
(* preshared key, each record's allowed_ips is the other node's tunnel     *)
(* address, and no allowed_ips entry is an overlay address.                *)
(***************************************************************************)
C9_PeerSymmetry ==
    \A a \in Nodes : \A b \in Nodes \ {a} :
        mem[b].key \in PeerKeys(mem[a]) =>
            /\ mem[a].key \in PeerKeys(mem[b])
            /\ PeerOf(mem[a], mem[b].key).psk = PeerOf(mem[b], mem[a].key).psk
            /\ PeerOf(mem[a], mem[b].key).allowed = <<mem[b].addr>>
            /\ PeerOf(mem[b], mem[a].key).allowed = <<mem[a].addr>>
            /\ PeerOf(mem[a], mem[b].key).allowed[1][1] # "overlay"

(***************************************************************************)
(* C10  Full-mesh cardinality: after the pair sweep of mesh.up on a full   *)
(* mesh, every node's config has exactly N-1 peers and exactly N-1 GRETAP  *)
(* fragment sets in postup and in predown, no device twice.                *)
(***************************************************************************)
C10_FullMeshCardinality ==
    (full /\ swept /\ ~(ret = "raised" /\ calls = <<>>)) =>
        \A n \in Nodes :
            LET added == Devices(mem[n].postup, "link_add")
                deleted == Devices(mem[n].predown, "link_del")
            IN  /\ Len(mem[n].peers) = NumNodes - 1
                /\ Len(mem[n].postup) = 4 * (NumNodes - 1)
                /\ Len(mem[n].predown) = 3 * (NumNodes - 1)
                /\ Len(added) = NumNodes - 1
                /\ Len(deleted) = NumNodes - 1
                /\ Cardinality({added[k] : k \in 1..Len(added)}) = NumNodes - 1
                /\ Cardinality({deleted[k] : k \in 1..Len(deleted)}) = NumNodes - 1

(***************************************************************************)
(* C11  Self-peering is rejected before side effects: a mesh.up over a     *)
(* mesh in which two nodes hold the same key ends by the exception of      *)
(* peer_with, with no node-level call made and so no config_write,         *)
(* wg-quick up or wg-quick down issued.                                    *)
(***************************************************************************)
SameKey ==
    \E a \in Members : \E b \in Members \ {a} : mem[a].key = mem[b].key

C11_SelfPeeringRejected ==
    (verb = "up" /\ SameKey) => (ret = "raised" /\ calls = <<>>)

(***************************************************************************)
(* C12  Partial-mesh gating: in the pair sweep of a mesh with full=false,  *)
(* a pair neither node of which has the other as a peer becomes peered iff *)
(* the UDP probe succeeds with one of the two nodes as receiver (a node    *)
(* whose interface is up holds the listen port and cannot receive the      *)
(* probe); otherwise it stays unpeered on both sides, and the sweep does   *)
(* not make mesh.up fail.                                                  *)
(***************************************************************************)
Peered(m, a, b) ==
    m[b].key \in PeerKeys(m[a]) /\ m[a].key \in PeerKeys(m[b])

Unpeered(m, a, b) ==
    m[b].key \notin PeerKeys(m[a]) /\ m[a].key \notin PeerKeys(m[b])

\* the sweep of mesh.up has just run
SweepStep == pc = "idle" /\ verb' = "up" /\ swept'

C12_PartialMeshGating ==
    [][(SweepStep /\ ~full /\ ~SameKey) =>
          /\ ret' # "raised"
          /\ \A a \in Members : \A b \in Members :
               (a < b /\ Unpeered(mem, a, b)) =>
                   LET received ==
                         \/ (~ifup[a] /\ <<a, b>> \in udp'.recv1)
                         \/ (~ifup[b] /\ <<a, b>> \in udp'.recv2)
                   IN  /\ received => Peered(mem', a, b)
                       /\ ~received => Unpeered(mem', a, b)
      ]_vars

C12_Witness ==
    /\ verb = "up" /\ ~full /\ swept /\ size = NumNodes /\ ret = "true"
    /\ Peered(mem, 1, 2)
    /\ Unpeered(mem, 1, NumNodes)
    /\ file[1] = mem[1] /\ ifup[NumNodes]

(***************************************************************************)
(* C13  Stable tunnel identity: when a node is attached and a remote       *)
(* config exists, its in-memory config has the key, tunnel address and     *)
(* listen port of the remote config, which are those it had before the     *)
(* re-attachment; a new key and address are generated only when no remote  *)
(* config exists.  A config file always carries its node's current key and *)
(* address, so they never change while the file persists.                  *)
(***************************************************************************)
AttachStep == epoch' = epoch + 1

C13_StableIdentity ==
    /\ [][AttachStep =>
            \A n \in Members :
                /\ file[n] # NoConfig =>
                     /\ mem'[n].key = file[n].key
                     /\ mem'[n].addr = file[n].addr
                     /\ mem'[n].port = file[n].port
                     /\ mem'[n].key = mem[n].key
                     /\ mem'[n].addr = mem[n].addr
                /\ file[n] = NoConfig =>
                     /\ mem'[n].key # mem[n].key
                     /\ mem'[n].addr # mem[n].addr
         ]_vars
    /\ [](\A n \in Members :
            file[n] # NoConfig =>
                (file[n].key = mem[n].key /\ file[n].addr = mem[n].addr))

C13_Witness ==
    /\ epoch = MaxEpoch
    /\ file[1] # NoConfig /\ mem[1].key = <<1, 1>> /\ mem[1].addr = TunnelAddr(1, 1)
    /\ file[NumNodes] = NoConfig /\ mem[NumNodes].key = <<NumNodes, MaxEpoch>>

(***************************************************************************)
(* C14  The config file of a node is never removed while the node's        *)
(* interface is up: whenever a node-level call removes the file, the       *)
(* interface is down at the removal, and a config_remove attempted while   *)
(* the interface is up is refused (the call raises) and leaves the file in *)
(* place.                                                                  *)
(***************************************************************************)
C14_NoRemoveWhileUp ==
    [][/\ \A n \in Nodes :
            (file[n] # NoConfig /\ file'[n] = NoConfig) =>
                (~ifup'[n] /\ NodeStep /\ NewCall.node = n
                 /\ "rm" \in Issued(NewCall.cmds))
       /\ (NodeStep /\ NewCall.ret = "raised" /\ "up" \in Issued(NewCall.cmds)) =>
            /\ ifup'[NewCall.node]
            /\ file'[NewCall.node] # NoConfig
            /\ "rm" \notin Issued(NewCall.cmds)
      ]_vars

C14_Witness ==
    /\ Ended /\ verb = "up" /\ ret = "raised" /\ calls # <<>>
    /\ ifup[LastCall.node]
    /\ file[LastCall.node] = mem[LastCall.node]
    /\ \E n \in Nodes : file[n] = NoConfig /\ ~ifup[n]

(***************************************************************************)
(* C15  Transport failures never raise: no node.up, node.down or node.sync *)
(* in which a remote command exited non-zero ends by a raised exception;   *)
(* the failure shows in the value it returns.                              *)
(***************************************************************************)
C15_TransportNeverRaises ==
    \A j \in 1..Len(calls) :
        calls[j].nf > 0 => calls[j].ret = "false"

(***************************************************************************)
(* C16  Rollback order: when mesh.up has ended after a node's up failed,   *)
(* down was called exactly once on each node that had come up in this run  *)
(* and on no other node, in the reverse of the order in which they came    *)
(* up, and mesh.up returned false.                                         *)
(***************************************************************************)
Reverse(s) == [k \in 1..Len(s) |-> s[Len(s) + 1 - k]]

\* the nodes on which the recorded calls of kind op returned a value in rets
NodesOf(op, rets) ==
    LET sel == SelectSeq(calls, LAMBDA c : c.op = op /\ c.ret \in rets)
    IN  [k \in 1..Len(sel) |-> sel[k].node]

UpFailed ==
    \E j \in 1..Len(calls) : calls[j].op = "up" /\ calls[j].ret # "true"

C16_RollbackOrder ==
    (Ended /\ verb = "up" /\ UpFailed) =>
        /\ NodesOf("down", {"true", "false", "raised"}) = Reverse(NodesOf("up", {"true"}))
        /\ ret = "false"

(***************************************************************************)
(* C17  Rollback cleans up only what up wrote: when mesh.up has returned   *)
(* false, every node that had come up and whose up wrote its config file   *)
(* has no config file, and every node that had come up without writing     *)
(* (its config existed and matched) still has that config file.            *)
(***************************************************************************)
C17_RollbackOnlyWhatUpWrote ==
    (Ended /\ verb = "up" /\ ret = "false") =>
        \A j \in 1..Len(calls) :
            (calls[j].op = "up" /\ calls[j].ret = "true") =>
                LET n == calls[j].node
                IN  /\ calls[j].w => file[n] = NoConfig
                    /\ ~calls[j].w =>
                         (file[n] # NoConfig /\ ConfigEq(file[n], mem[n]))

(***************************************************************************)
(* C18  mesh.up return value: when mesh.up has ended, it returned true iff *)
(* the mesh has at least one node and up returned true on every node, it   *)
(* returned false iff some node's up returned false, and it returned null  *)
(* iff the mesh is empty.                                                  *)
(***************************************************************************)
C18_UpReturnValue ==
    (Ended /\ verb = "up") =>
        /\ (ret = "true") <=>
             (size >= 1 /\ NodesOf("up", {"true"}) = [k \in 1..size |-> k])
        /\ (ret = "false") <=>
             (\E j \in 1..Len(calls) : calls[j].op = "up" /\ calls[j].ret = "false")
        /\ (ret = "null") <=> (size = 0)

C18_Witness ==
    Ended /\ verb = "up" /\ size = 0 /\ ret = "null" /\ calls = <<>>

(***************************************************************************)
(* C19  Node tear-down semantics: node.down(remove) returns false iff the  *)
(* interface was up and wg-quick down failed, and then the config is       *)
(* removed only if the interface is now down and remove is true; otherwise *)
(* it returns true with the interface down and the config removed iff      *)
(* remove is true, or remove is null and the config exists; with remove    *)
(* false the config file is never removed.                                 *)
(***************************************************************************)
C19_NodeDownSemantics ==
    [][(NodeStep /\ NewCall.op = "down") =>
          LET n == NewCall.node
              down_failed == ifup[n] /\ (NewCall.nf > 0 \/ file[n] = NoConfig)
          IN  /\ NewCall.ret \in {"true", "false"}
              /\ (NewCall.ret = "false") <=> down_failed
              /\ NewCall.ret = "false" =>
                   file'[n] = IF ~ifup'[n] /\ arg = "true" THEN NoConfig
                              ELSE file[n]
              /\ NewCall.ret = "true" =>
                   /\ ~ifup'[n]
                   /\ file'[n] = IF arg = "true" \/ (arg = "null" /\ file[n] # NoConfig)
                                 THEN NoConfig ELSE file[n]
              /\ arg = "false" => file'[n] = file[n]
      ]_vars

C19_Witness ==
    /\ Ended /\ verb = "down" /\ arg = "true" /\ calls # <<>>
    /\ LastCall.ret = "false" /\ LastCall.cmds = <<"down", "rm">>
    /\ ~ifup[LastCall.node] /\ file[LastCall.node] = NoConfig

(***************************************************************************)
(* C20  Peering precedes writing: within one mesh.up the pair sweep is     *)
(* complete before the first node-level call.  No step that issues a       *)
(* remote command changes an in-memory config, no step that changes an     *)
(* in-memory config issues a remote command, and when node.up is called    *)
(* after a sweep of a full mesh, every pair of the mesh is peered on both  *)
(* sides.                                                                  *)
(***************************************************************************)
C20_PeeringPrecedesWriting ==
    [][/\ NodeStep => mem' = mem
       /\ mem' # mem =>
            (calls' = <<>> /\ file' = file /\ ifup' = ifup /\ running' = running)
       /\ (pc = "up" /\ NodeStep /\ swept /\ full) =>
            \A a \in Members : \A b \in Members \ {a} : Peered(mem, a, b)
      ]_vars

C20_Witness ==
    /\ verb = "up" /\ swept /\ full /\ size = NumNodes
    /\ Len(calls) = 1 /\ calls[1].cmds = <<"write", "up">>
    /\ \A a \in Members : \A b \in Members \ {a} : Peered(mem, a, b)
    /\ file[1] = mem[1] /\ file[NumNodes] = NoConfig

\* the declared name of the node on host h (NodeType.name)
NameOf(h) == nodes[CHOOSE k \in 1..Len(nodes) : nodes[k].host = h].name

\* the pairs Mesh.pairs yields, by node name
NamePairs ==
    LET ps == NodePairs(nodes)
    IN  [k \in 1..Len(ps) |-> <<NameOf(ps[k][1]), NameOf(ps[k][2])>>]

LexLess(p, q) == p[1] < q[1] \/ (p[1] = q[1] /\ p[2] < q[2])

Ascending(s) == \A j, k \in 1..Len(s) : j < k => s[j] < s[k]

(***************************************************************************)
(* C21  Deterministic pair order: in a built mesh the pair sweep visits    *)
(* C(n,2) pairs, each of two different nodes with the smaller name first,  *)
(* in lexicographic order of the names, whatever the order of the          *)
(* declaration; so after a sweep over fresh configs every node holds its   *)
(* peers in ascending order of their names.                                *)
(***************************************************************************)
C21_DeterministicPairOrder ==
    pc \notin {"new", "invalid"} =>
      /\ 2 * Len(NamePairs) = size * (size - 1)
      /\ \A k \in 1..Len(NamePairs) : NamePairs[k][1] < NamePairs[k][2]
      /\ \A j, k \in 1..Len(NamePairs) :
            j < k => LexLess(NamePairs[j], NamePairs[k])
      /\ (swept /\ ret # "raised") =>
            \A n \in Members :
              Ascending([k \in 1..Len(mem[n].peers) |-> NameOf(mem[n].peers[k].name)])

HasDuplicateNames(d) ==
    \E j, k \in 1..Len(d) : j # k /\ d[j].name = d[k].name

C22_ConfigStability ==
    /\ (calls # <<>> /\ LastCall.op = "up" /\ LastCall.ret = "true") =>
          ConfigEq(file[LastCall.node], mem[LastCall.node])
    /\ (epoch > 1 /\ pc = "up" /\ calls = <<>>) =>
          \A n \in Members :
            (ifup[n] /\ running[n] = file[n]) => ConfigEq(mem[n], file[n])

\* __main__: exit(args.func(mesh, args) or 0), where _up, _down and _sync
\* return int(not <result of the verb>); an exception that leaves main ends
\* the interpreter with status 1
exit_code(rv) == IF rv = "true" THEN 0 ELSE 1

\* the verb was called with the arguments the command line passes:
\* mesh.up(), mesh.down(remove=args.remove), mesh.sync()
CliVerb ==
    \/ verb = "up" /\ arg = "null"
    \/ verb = "down" /\ arg \in {"true", "false"}
    \/ verb = "sync" /\ arg = "null"

\* the node operation failed: it raised, node.up or node.down returned false,
\* or node.sync returned false after issuing a command (a node.sync that
\* returns false without a command found nothing to change)
Failed(c) ==
    \/ c.ret = "raised"
    \/ c.op \in {"up", "down"} /\ c.ret = "false"
    \/ c.op = "sync" /\ c.ret = "false" /\ c.cmds # <<>>

VerbFailed == ret = "raised" \/ \E j \in 1..Len(calls) : Failed(calls[j])

(***************************************************************************)
(* C24  CLI exit code: when one of the verbs up, down, sync has ended as   *)
(* the command line runs it, the process exits with 0 iff no node          *)
(* operation of the verb failed, and with 1 iff one failed.                *)
(***************************************************************************)
C24_CliExitCode ==
    (Ended /\ CliVerb) =>
      /\ exit_code(ret) = 0 <=> ~VerbFailed
      /\ exit_code(ret) = 1 <=> VerbFailed

\* mesh.up is entered
UpStartStep == pc = "idle" /\ verb' = "up"

\* some node has no config on disk or an empty peer list
NeedsPeering ==
    \E n \in Members : file[n] = NoConfig \/ Len(mem[n].peers) = 0

(***************************************************************************)
(* C25  Pair-sweep trigger: mesh.up(write) runs the pair sweep iff write   *)
(* is not false and some node has no config on disk or no peers; with      *)
(* write = false it leaves every in-memory config as it was.               *)
(***************************************************************************)
C25_SweepTrigger ==
    [][UpStartStep =>
         /\ swept' <=> (arg' # "false" /\ NeedsPeering)
         /\ arg' = "false" => mem' = mem]_vars

(***************************************************************************)
(* C26  Step order inside node.up: a config write, when one is issued, is  *)
(* the first command and wg-quick down never follows wg-quick up; when the *)
(* interface is up and no config write is issued, node.up returns true     *)
(* with no wg-quick command; when the interface is up and the config was   *)
(* written, wg-quick down and then wg-quick up follow the write.           *)
(***************************************************************************)
C26_NodeUpStepOrder ==
    [][(NodeStep /\ NewCall.op = "up") =>
         LET c == NewCall
             n == c.node
         IN  /\ \A k \in 1..Len(c.cmds) : c.cmds[k] = "write" => k = 1
             /\ \A j, k \in 1..Len(c.cmds) :
                   (c.cmds[j] = "up" /\ c.cmds[k] = "down") => k < j
             /\ (ifup[n] /\ "write" \notin Issued(c.cmds)) =>
                   (c.ret = "true" /\ c.cmds = <<>>)
             /\ (ifup[n] /\ Wrote(c)) =>
                   (Len(c.cmds) >= 3 /\ c.cmds[1] = "write"
                    /\ c.cmds[2] = "down" /\ c.cmds[3] = "up")]_vars

\* a node.up found its interface up, wrote the config, and restarted the
\* interface; an earlier one found it up with nothing to write
C26_Witness ==
    /\ calls # <<>>
    /\ LastCall.op = "up"
    /\ LastCall.cmds = <<"write", "down", "up">>
    /\ LastCall.ret = "true"
    /\ \E j \in 1..Len(calls) :
         calls[j].op = "up" /\ calls[j].cmds = <<>> /\ calls[j].ret = "true"

\* the nodes a is not mutually peered with
NotPeeredWith(m, a) == {b \in Members \ {a} : ~Peered(m, a, b)}

(***************************************************************************)
(* C27  Refresh leaves the peering untouched: over a pair sweep that does  *)
(* not raise, a pair whose sides already carried each other keeps, on both *)
(* sides, the peer record's key, preshared key and allowed_ips, and every  *)
(* node's postup and predown grow by exactly one GRETAP set per node it    *)
(* was not yet peered with (none for a refreshed pair).  Running the pair  *)
(* sweep again right after a sweep changes no config at all.               *)
(***************************************************************************)
C27_RefreshLeavesPeering ==
    /\ [][(SweepStep /\ pc' = "up") =>
            \A a \in Members :
              /\ Len(mem'[a].postup) =
                    Len(mem[a].postup) + 4 * Cardinality(NotPeeredWith(mem, a))
              /\ Len(mem'[a].predown) =
                    Len(mem[a].predown) + 3 * Cardinality(NotPeeredWith(mem, a))
              /\ SubSeq(mem'[a].postup, 1, Len(mem[a].postup)) = mem[a].postup
              /\ SubSeq(mem'[a].predown, 1, Len(mem[a].predown)) = mem[a].predown
              /\ \A b \in Members \ {a} :
                    Peered(mem, a, b) =>
                      LET old == PeerOf(mem[a], mem[b].key)
                          new == PeerOf(mem'[a], mem'[b].key)
                      IN  /\ mem'[b].key = mem[b].key
                          /\ new.pub = old.pub
                          /\ new.psk = old.psk
                          /\ new.allowed = old.allowed
                          /\ Cardinality({k \in 1..Len(mem'[a].peers) :
                                            mem'[a].peers[k].pub = old.pub}) = 1]_vars
    /\ [](swept /\ pc = "up" /\ calls = <<>> =>
            Sweep(mem, 1, epoch, full, ifup, udp) = [m |-> mem, raised |-> FALSE])

\* a sweep has just run over a mesh in which nodes 1 and 2 had adopted
\* configs that carried each other, while another node had no peers
C27_Witness ==
    /\ swept /\ pc = "up" /\ calls = <<>> /\ epoch > 1
    /\ file[1] # NoConfig /\ file[2] # NoConfig
    /\ Peered(file, 1, 2)
    /\ mem[1].key = file[1].key /\ mem[2].key = file[2].key

\* both sides carry each other and a peer record's allowed_ips[0] is not the
\* tunnel address of the node it stands for
Mismatch(m, a, b) ==
    /\ Peered(m, a, b)
    /\ \/ PeerOf(m[b], m[a].key).allowed[1] # m[a].addr
       \/ PeerOf(m[a], m[b].key).allowed[1] # m[b].addr

\* the in-memory configs when the sweep of this step reaches its k-th pair,
\* and whether an earlier pair raised
SweepBefore(k) ==
    LET ps == NodePairs(nodes)
        F[j \in 0..(k - 1)] ==
          IF j = 0 THEN [m |-> mem, raised |-> FALSE]
          ELSE IF F[j - 1].raised THEN F[j - 1]
          ELSE peer_with(F[j - 1].m, ps[j][1], ps[j][2], epoch, full,
                         can_peer(ps[j][1], ps[j][2], ifup, udp'))
    IN  F[k - 1]

(***************************************************************************)
(* C28  Address mismatch is fatal and atomic for the pair: when the pair   *)
(* sweep of mesh.up reaches a pair whose sides carry each other with a     *)
(* peer record whose allowed_ips[0] is not the other node's tunnel         *)
(* address, mesh.up ends by the exception, the configs of the two nodes    *)
(* are as they were when the pair was reached, and mesh.up has issued no   *)
(* node-level call (no config write, no wg-quick command): the remotes are *)
(* unchanged.                                                              *)
(***************************************************************************)
C28_AddressMismatchFatal ==
    [][SweepStep =>
         \A k \in 1..Len(NodePairs(nodes)) :
           LET a == NodePairs(nodes)[k][1]
               b == NodePairs(nodes)[k][2]
               before == SweepBefore(k)
           IN  (~before.raised /\ Mismatch(before.m, a, b)) =>
                 /\ pc' = "done" /\ ret' = "raised"
                 /\ mem'[a] = before.m[a] /\ mem'[b] = before.m[b]
                 /\ calls' = <<>>
                 /\ file' = file /\ ifup' = ifup /\ running' = running]_vars

\* mesh.up has ended by the exception of a pair with mismatching addresses
C28_Witness ==
    /\ pc = "done" /\ verb = "up" /\ ret = "raised" /\ swept
    /\ \E a \in Members : \E b \in Members \ {a} : Mismatch(mem, a, b)

(***************************************************************************)
(* The links of a host as the shell lines of the fragments change them:    *)
(* the GRETAP devices, those enslaved to the bridge, whether the bridge    *)
(* exists and how often it was created.                                    *)
(***************************************************************************)
NoLinks == [devs |-> {}, slaves |-> {}, bridge |-> FALSE, created |-> 0]

\* one line of gretap_up / gretap_down run on the host
run_line(h, line) ==
    IF line[1] = "link_add"
    THEN [h EXCEPT !.devs = @ \cup {line[2]}]
    ELSE IF line[1] = "bridge_ensure"
    THEN IF h.bridge THEN h
         ELSE [h EXCEPT !.bridge = TRUE, !.created = @ + 1]
    ELSE IF line[1] = "master"
    THEN IF line[2] \in h.devs /\ h.bridge
         THEN [h EXCEPT !.slaves = @ \cup {line[2]}] ELSE h
    ELSE IF line[1] = "nomaster"
    THEN [h EXCEPT !.slaves = @ \ {line[2]}]
    ELSE IF line[1] = "link_del"
    THEN [h EXCEPT !.devs = @ \ {line[2]}, !.slaves = @ \ {line[2]}]
    ELSE IF line[1] = "bridge_del_if_unused"
    THEN IF h.slaves = {} THEN [h EXCEPT !.bridge = FALSE] ELSE h
    ELSE h

\* the first cnt lines run in order from the links h
run_lines(h, lines, cnt) ==
    LET F[k \in 0..cnt] ==
          IF k = 0 THEN h ELSE run_line(F[k - 1], lines[k])
    IN  F[cnt]

\* the config names k different GRETAP devices in k up-sets and k
\* tear-down sets
KSets(cfg, k) ==
    /\ Len(cfg.postup) = 4 * k
    /\ Len(cfg.predown) = 3 * k
    /\ Len(Devices(cfg.postup, "link_add")) = k
    /\ Cardinality({Devices(cfg.postup, "link_add")[j] : j \in 1..k}) = k

(***************************************************************************)
(* C29  Bridge lifecycle: for the config a live interface was brought up   *)
(* from, with k >= 1 GRETAP sets: running the up-sets in order creates the *)
(* bridge once, in the first set, and after the j-th set the first j       *)
(* devices are enslaved to it; running the tear-down sets in order then,   *)
(* the bridge exists after the j-th set iff j < k, the devices of the      *)
(* later sets still enslaved, and after the last set no device and no      *)
(* bridge is left.                                                         *)
(***************************************************************************)
C29_BridgeLifecycle ==
    \A n \in Members : \A k \in 1..NumNodes :
      (ifup[n] /\ KSets(running[n], k)) =>
        LET cfg == running[n]
            devs == Devices(cfg.postup, "link_add")
            upto(j) == run_lines(NoLinks, cfg.postup, 4 * j)
            downto(j) == run_lines(upto(k), cfg.predown, 3 * j)
        IN  /\ \A j \in 1..k :
                  /\ upto(j).bridge /\ upto(j).created = 1
                  /\ upto(j).slaves = {devs[x] : x \in 1..j}
                  /\ upto(j).devs = {devs[x] : x \in 1..j}
            /\ \A j \in 1..k :
                  /\ downto(j).bridge <=> j < k
                  /\ downto(j).created = 1
                  /\ downto(j).slaves = {devs[x] : x \in (j + 1)..k}
                  /\ downto(j).devs = {devs[x] : x \in (j + 1)..k}

\* an interface is up from a config with two GRETAP sets
C29_Witness ==
    \E n \in Members : ifup[n] /\ KSets(running[n], 2)

(***************************************************************************)
(* C30  Disk covers kernel: in every state reached from clean hosts by     *)
(* mesh up, down and sync (any of their remote commands failing, the       *)
(* process killed and started again), a node whose interface is up has a   *)
(* config file.                                                            *)
(***************************************************************************)
C30_DiskCoversKernel ==
    \A n \in Nodes : ifup[n] => file[n] # NoConfig

\* a node.sync that delegated to node.up has restarted nothing: wg-quick
\* down failed, wg-quick up failed on the live interface, and the removal of
\* the config just written was refused
C30_Witness ==
    /\ Ended /\ verb = "sync" /\ ret = "raised" /\ calls # <<>>
    /\ LastCall.cmds = <<"write", "down", "up">>
    /\ ifup[LastCall.node]
    /\ file[LastCall.node] # NoConfig

\* the place of the node on host n in Mesh.nodes, the iteration order
Pos(n) == CHOOSE k \in 1..Len(nodes) : nodes[k].host = n

\* the remote state of node n changes in this step
HostChanges(n) ==
    file'[n] # file[n] \/ ifup'[n] # ifup[n] \/ running'[n] # running[n]

(***************************************************************************)
(* C31  mesh.up stops at the first failing node: during a mesh.up the      *)
(* remote state of a node changes only in a node-level call on that node,  *)
(* and once a node.up has failed (returned false or raised) no call of     *)
(* that mesh.up, before or after it, is on a node that follows the failing *)
(* node in Mesh.nodes; so the nodes that follow it get no config write, no *)
(* wg-quick command and no config removal.                                 *)
(***************************************************************************)
C31_UpStopsAtFirstFailure ==
    /\ [][(verb = "up" /\ pc \in {"up", "rollback"}) =>
            \A n \in Nodes :
              HostChanges(n) => (NodeStep /\ NewCall.node = n)]_vars
    /\ [](verb = "up" =>
            \A j \in 1..Len(calls) :
              (calls[j].op = "up" /\ calls[j].ret # "true") =>
                \A k \in 1..Len(calls) :
                  Pos(calls[k].node) <= Pos(calls[j].node))

\* mesh.up over three nodes declared out of address order has ended after
\* the second node failed and the first was rolled back; the third node was
\* not called and has no config file and no interface
C31_Witness ==
    /\ Ended /\ verb = "up" /\ ret = "false" /\ size = NumNodes
    /\ nodes[1].host > nodes[NumNodes].host
    /\ Len(calls) = 3
    /\ calls[2].op = "up" /\ calls[2].ret = "false" /\ calls[2].node = nodes[2].host
    /\ calls[3].op = "down" /\ calls[3].node = nodes[1].host
    /\ file[nodes[NumNodes].host] = NoConfig /\ ~ifup[nodes[NumNodes].host]

=============================================================================
